---- MODULE Spec2Model ----
(***************************************************************************)
(* Model of the quantum state model and transition engine of               *)
(* src/bloch-sphere.js (class BlochSphereVisualizer).                      *)
(*                                                                         *)
(* Angles are integers in units of pi/16, so that Math.PI is 16, a quarter *)
(* turn is 8 and every frame of a transition between quarter-turn angles,  *)
(* read at a clock value that is a multiple of 500 ms, is an integer.      *)
(* Time is in milliseconds.  Arithmetic on angles is exact (the spec's     *)
(* "within floating tolerance"); where the code branches on a computed     *)
(* floating-point value (Math.random() < prob0) the value is the one the   *)
(* code computes, see Prob0.                                               *)
(***************************************************************************)
EXTENDS Integers, Sequences, FiniteSets, TLC

VARIABLES
    theta,        \* this.theta
    phi,          \* this.phi
    isAnimating,  \* this.isAnimating
    rafQueue,     \* animate closures handed to requestAnimationFrame, each with
                  \* its captured startTheta, startPhi, targetTheta, targetPhi
                  \* and elapsed = Date.now() - startTime
    timers,       \* setTimeout callbacks of performMeasurement: ms left of each
    measurement   \* the outcome of the last alert, -1 before the first

vars == <<theta, phi, isAnimating, rafQueue, timers, measurement>>

----------------------------------------------------------------------------
(* Bounds of the model *)

\* most clock steps of 500 ms that pass between two events
MaxStep == 2
\* most measurement callbacks waiting in setTimeout
MaxPending == 2
\* quarter turns by which an unrestricted slider value may leave the
\* state's range (theta 0..180, phi 0..270 degrees)
MaxOver == 1
\* Math.random() is drawn from k/SampleSteps, k < SampleSteps, and 0.9999
SampleSteps == 4
\* most clock steps of 500 ms by which Date.now() may read less than the
\* startTime of a transition in flight
MaxBack == 1

----------------------------------------------------------------------------
(* Numbers *)

\* Math.PI, in angle units
Pi == 16

\* NaN, the value of arithmetic on undefined; no angle reaches this number
NaN == 9999

IsNaN(a) == a = NaN

\* the default duration of animateToState, ms
duration == 1000

\* the delay of the setTimeout of performMeasurement, ms
measureDelay == 1000

Abs(n) == IF n < 0 THEN -n ELSE n

Min(a, b) == IF a < b THEN a ELSE b

Max(a, b) == IF a > b THEN a ELSE b

RECURSIVE GCD(_, _)
GCD(a, b) == IF b = 0 THEN a ELSE GCD(b, a % b)

\* JavaScript's a % m: the remainder has the sign of the dividend
JSMod(a, m) == IF a >= 0 THEN a % m ELSE -((-a) % m)

\* Math.sin and Math.cos at a whole number of quarter turns, and at NaN
Cos(a) == CASE IsNaN(a) -> NaN
            [] a % (2 * Pi) = 0 -> 1
            [] a % (2 * Pi) = Pi \div 2 -> 0
            [] a % (2 * Pi) = Pi -> -1
            [] a % (2 * Pi) = (3 * Pi) \div 2 -> 0

Sin(a) == IF IsNaN(a) THEN NaN ELSE Cos(a - Pi \div 2)

\* a * b of two numbers
Times(a, b) == IF IsNaN(a) \/ IsNaN(b) THEN NaN ELSE a * b

\* Math.acos at -1, 0, 1
Acos(c) == CASE IsNaN(c) -> NaN
             [] c = 1 -> 0
             [] c = 0 -> Pi \div 2
             [] c = -1 -> Pi

\* Math.atan2 at y, x in {-1, 0, 1}; atan2(0, 0) is 0
Atan2(y, x) == CASE IsNaN(y) \/ IsNaN(x) -> NaN
                 [] y = 0 /\ x >= 0 -> 0
                 [] y = 0 /\ x < 0 -> Pi
                 [] y > 0 /\ x = 0 -> Pi \div 2
                 [] y < 0 /\ x = 0 -> -(Pi \div 2)
                 [] y > 0 /\ x > 0 -> Pi \div 4
                 [] y > 0 /\ x < 0 -> (3 * Pi) \div 4
                 [] y < 0 /\ x > 0 -> -(Pi \div 4)
                 [] y < 0 /\ x < 0 -> -((3 * Pi) \div 4)

\* the Bloch direction (x, y, z) of updateQuantumState
Direction(t, p) == <<Times(Sin(t), Cos(p)), Times(Sin(t), Sin(p)), Cos(t)>>

----------------------------------------------------------------------------
(* Inputs *)

\* slider values in degrees inside the state's range: theta in [0, 180],
\* phi in [0, 360)
ThetaDegrees == {90 * q : q \in 0..2}

PhiDegrees == {90 * q : q \in 0..3}

\* the phi slider also at 360
FullPhiDegrees == PhiDegrees \cup {360}

\* values an input event may carry: one inside the range and, on each side,
\* MaxOver outside it
AnyThetaDegrees == {90} \cup {-90 * k : k \in 1..MaxOver}
                        \cup {180 + 90 * k : k \in 1..MaxOver}

AnyPhiDegrees == {90} \cup {-90 * k : k \in 1..MaxOver}
                      \cup {270 + 90 * k : k \in 1..MaxOver}

\* the data-state and data-gate values of the buttons
PresetIds == {"ground", "excited", "plus", "minus", "right", "left"}

GateIds == {"x", "y", "z", "h"}

\* property names every object literal inherits from Object.prototype
InheritedIds == {"constructor", "toString"}

\* any identifier string
AnyIds == PresetIds \cup GateIds \cup InheritedIds \cup {"", "zero", "X", "reset"}

\* the values of Math.random(), in units of 1/20000: 0, 1/SampleSteps, ...
\* and 0.9999
Samples == {2 * ((k * 10000) \div SampleSteps) : k \in 0..(SampleSteps - 1)}
             \cup {19998}

----------------------------------------------------------------------------
(* Qubit state *)

\* (parseFloat(e.target.value) * Math.PI) / 180
DegreesToRadians(v) == (v * Pi) \div 180

\* cos^2(k pi / 32) in units of 1/10000, k = 0..16
Cos2Half == <<10000, 9904, 9619, 9157, 8536, 7778, 6913, 5975, 5000,
              4025, 3087, 2222, 1464, 843, 381, 96, 0>>

\* Math.cos(t / 2) ** 2 in units of 1/20000.  The doubles the code computes
\* at the angles where the exact value meets a sample: 1 at t = 0,
\* 0.5000000000000001 at t = Math.PI / 2, 0.4999999999999999 at
\* t = 3 * Math.PI / 2 and 3.749e-33 (not 0) at t = Math.PI; one unit stands
\* for the excess over, or the lack to, the exact value.  Math.cos is even.
Prob0(t) ==
    IF IsNaN(t) THEN NaN
    ELSE LET k == Abs(t) % (2 * Pi)
             fold == IF k > Pi THEN 2 * Pi - k ELSE k
             residue == CASE k = Pi \div 2 -> 1
                          [] k = Pi -> 1
                          [] k = (3 * Pi) \div 2 -> -1
                          [] OTHER -> 0
         IN  2 * Cos2Half[fold + 1] + residue

----------------------------------------------------------------------------
(* State display.  Amplitudes are in units of 1/10000 and strings are      *)
(* JavaScript's; the angles are whole quarter turns, where every part of   *)
(* an amplitude is 0 (or a double below 1e-16 in size), 0.7071... or 1.    *)

\* the angle pair is one the display is modelled at
OnGrid(t, p) == t \in {0, Pi \div 2, Pi} /\ p \in {(q * Pi) \div 2 : q \in 0..4}

\* Math.cos(t / 2) at t = 0, pi/2, pi
HalfCos == <<10000, 7071, 0>>

CosHalf(t) == HalfCos[(t \div (Pi \div 2)) + 1]

\* Math.sin(t / 2) = cos((pi - t) / 2)
SinHalf(t) == CosHalf(Pi - t)

\* new Complex(real, imag)
Complex(real, imag) == [real |-> real, imag |-> imag]

\* Complex.exp(z) for z.real = 0, where Math.exp(z.real) is 1
exp(z) == Complex(Cos(z.imag), Sin(z.imag))

\* z.scale(s)
scale(z, s) == Complex(z.real * s, z.imag * s)

\* the amplitudes alpha and beta of updateStateDisplay
Alpha(t, p) == Complex(CosHalf(t), 0)

Beta(t, p) == scale(exp(Complex(0, p)), SinHalf(t))

Digit == <<"0", "1", "2", "3", "4", "5", "6", "7", "8", "9">>

\* v.toFixed(3): the sign, the integer part, and the three decimals of the
\* thousandth nearest to v
toFixed(v) ==
    LET m == (Abs(v) + 5) \div 10
        whole == m \div 1000
        frac == m % 1000
    IN  (IF v < 0 THEN "-" ELSE "")
        \o Digit[whole + 1] \o "."
        \o Digit[(frac \div 100) + 1]
        \o Digit[((frac \div 10) % 10) + 1]
        \o Digit[(frac % 10) + 1]

\* Math.abs(v) < 1e-10, of the values of the model
Negligible(v) == Abs(v) = 0

\* s.substring(1)
substring(s) == SubSeq(s, 2, Len(s))

\* formatComplex writing every imaginary part with its digits
formatComplexDigits(real, imag) ==
    IF Negligible(imag) THEN toFixed(real)
    ELSE LET realStr == IF Negligible(real) THEN "" ELSE toFixed(real)
             imagStr == toFixed(imag) \o "i"
         IN  IF realStr = "" THEN imagStr
             ELSE IF imag > 0 THEN realStr \o " + " \o imagStr
             ELSE realStr \o " - " \o substring(imagStr)

formatComplex(real, imag) ==
    IF Negligible(imag) THEN toFixed(real)
    ELSE LET realStr == IF Negligible(real) THEN "" ELSE toFixed(real)
             imagStr == IF Negligible(imag - 10000) THEN "i"
                        ELSE IF Negligible(imag + 10000) THEN "-i"
                        ELSE toFixed(imag) \o "i"
         IN  IF realStr = "" THEN imagStr
             ELSE IF imag > 0 THEN realStr \o " + " \o imagStr
             ELSE realStr \o " - " \o substring(imagStr)

\* updateStateDisplay: alphaStr and betaStr, which the template puts into
\* the text of #state-coords
updateStateDisplay(t, p) ==
    [alphaStr |-> formatComplex(Alpha(t, p).real, Alpha(t, p).imag),
     betaStr |-> formatComplex(Beta(t, p).real, Beta(t, p).imag)]

----------------------------------------------------------------------------
(* Transition animator *)

\* Math.min(elapsed / duration, 1) as a fraction <<numerator, denominator>>;
\* it is negative when Date.now() reads less than startTime
Progress(elapsed) ==
    IF elapsed >= duration THEN <<1, 1>>
    ELSE LET g == GCD(duration, Abs(elapsed))
         IN  <<elapsed \div g, duration \div g>>

\* 1 - Math.pow(1 - progress, 3) as a fraction
Eased(progress) ==
    LET n == progress[1]
        d == progress[2]
    IN  <<d * d * d - (d - n) * (d - n) * (d - n), d * d * d>>

\* start + (target - start) * eased
Interpolate(start, target, eased) ==
    IF IsNaN(start) \/ IsNaN(target) THEN NaN
    ELSE start + ((target - start) * eased[1]) \div eased[2]

\* animateToState without its first line, if (this.isAnimating) return
animateToStateUnguarded(targetTheta, targetPhi) ==
    /\ isAnimating' = TRUE
    /\ rafQueue' = Append(rafQueue,
           [startTheta |-> theta, startPhi |-> phi,
            targetTheta |-> targetTheta, targetPhi |-> targetPhi,
            elapsed |-> 0])

\* animateToState up to its requestAnimationFrame(animate); the caller's
\* variables are left to the caller
animateToState(targetTheta, targetPhi) ==
    IF isAnimating
    THEN UNCHANGED <<isAnimating, rafQueue>>
    ELSE /\ isAnimating' = TRUE
         /\ rafQueue' = Append(rafQueue,
                [startTheta |-> theta, startPhi |-> phi,
                 targetTheta |-> targetTheta, targetPhi |-> targetPhi,
                 elapsed |-> 0])

\* animate writing the angles only while progress < 1
animateNoFinalWrite ==
    /\ rafQueue # <<>>
    /\ LET a == Head(rafQueue)
           progress == Progress(a.elapsed)
           eased == Eased(progress)
       IN  IF progress[1] < progress[2]
           THEN /\ theta' = Interpolate(a.startTheta, a.targetTheta, eased)
                /\ phi' = Interpolate(a.startPhi, a.targetPhi, eased)
                /\ rafQueue' = Append(Tail(rafQueue), a)
                /\ UNCHANGED isAnimating
           ELSE /\ rafQueue' = Tail(rafQueue)
                /\ isAnimating' = FALSE
                /\ UNCHANGED <<theta, phi>>
    /\ UNCHANGED <<timers, measurement>>

\* one run of the animate closure at the head of the frame queue
animate ==
    /\ rafQueue # <<>>
    /\ LET a == Head(rafQueue)
           progress == Progress(a.elapsed)
           eased == Eased(progress)
       IN  /\ theta' = Interpolate(a.startTheta, a.targetTheta, eased)
           /\ phi' = Interpolate(a.startPhi, a.targetPhi, eased)
           /\ IF progress[1] < progress[2]
              THEN /\ rafQueue' = Append(Tail(rafQueue), a)
                   /\ UNCHANGED isAnimating
              ELSE /\ rafQueue' = Tail(rafQueue)
                   /\ isAnimating' = FALSE
    /\ UNCHANGED <<timers, measurement>>

\* the clock: dt ms pass for every closure and every timer
AdvanceClock(dt) ==
    /\ rafQueue' = [i \in DOMAIN rafQueue |->
                      [rafQueue[i] EXCEPT !.elapsed = Min(@ + dt, duration)]]
    /\ timers' = [i \in DOMAIN timers |-> Max(timers[i] - dt, 0)]
    /\ UNCHANGED <<theta, phi, isAnimating, measurement>>

\* the system clock is set back by dt ms: Date.now() reads dt less for every
\* closure; setTimeout does not count by Date.now()
ClockSetBack(dt) ==
    /\ rafQueue # <<>>
    /\ \A i \in DOMAIN rafQueue : rafQueue[i].elapsed - dt >= -(500 * MaxBack)
    /\ rafQueue' = [i \in DOMAIN rafQueue |->
                      [rafQueue[i] EXCEPT !.elapsed = @ - dt]]
    /\ UNCHANGED <<theta, phi, isAnimating, timers, measurement>>

----------------------------------------------------------------------------
(* Slider input *)

thetaSliderInput(v) ==
    /\ theta' = DegreesToRadians(v)
    /\ UNCHANGED <<phi, isAnimating, rafQueue, timers, measurement>>

phiSliderInput(v) ==
    /\ phi' = DegreesToRadians(v)
    /\ UNCHANGED <<theta, isAnimating, rafQueue, timers, measurement>>

----------------------------------------------------------------------------
(* Gate engine: each gate's target <<newTheta, newPhi>> for the angles t, p *)

Plus(a, b) == IF IsNaN(a) \/ IsNaN(b) THEN NaN ELSE a + b

Minus(a, b) == IF IsNaN(a) \/ IsNaN(b) THEN NaN ELSE a - b

\* a % (2 * Math.PI)
Mod2Pi(a) == IF IsNaN(a) THEN NaN ELSE JSMod(a, 2 * Pi)

\* if (newPhi < 0) newPhi += 2 * Math.PI
WrapNegative(a) == IF ~IsNaN(a) /\ a < 0 THEN a + 2 * Pi ELSE a

\* PauliX without the % (2 * Math.PI)
PauliXNoMod(t, p) == <<Minus(Pi, t), Plus(p, Pi)>>

PauliX(t, p) == <<Minus(Pi, t), Mod2Pi(Plus(p, Pi))>>

\* PauliY as its comment says it was before: it only negates phi
PauliYNegatePhi(t, p) == <<t, WrapNegative(Mod2Pi(Minus(0, p)))>>

PauliY(t, p) == <<Minus(Pi, t), WrapNegative(Mod2Pi(Minus(Pi, p)))>>

PauliZ(t, p) == <<t, Mod2Pi(Plus(p, Pi))>>

\* Hadamard with the targets of its two special cases exchanged
HadamardPolesSwapped(t, p) ==
    IF ~IsNaN(t) /\ Abs(t) = 0 THEN <<Pi \div 2, Pi>>
    ELSE IF ~IsNaN(t) /\ Abs(t - Pi) = 0 THEN <<Pi \div 2, 0>>
    ELSE LET d == Direction(t, p)
             x2 == d[3]
             y2 == Minus(0, d[2])
             z2 == d[1]
         IN  <<Acos(z2), WrapNegative(Atan2(y2, x2))>>

\* Math.abs(theta) < 1e-10 and Math.abs(theta - Math.PI) < 1e-10 hold of the
\* angles of the grid exactly at 0 and at Math.PI
Hadamard(t, p) ==
    IF ~IsNaN(t) /\ Abs(t) = 0 THEN <<Pi \div 2, 0>>
    ELSE IF ~IsNaN(t) /\ Abs(t - Pi) = 0 THEN <<Pi \div 2, Pi>>
    ELSE LET d == Direction(t, p)
             x2 == d[3]
             y2 == Minus(0, d[2])
             z2 == d[1]
         IN  <<Acos(z2), WrapNegative(Atan2(y2, x2))>>

\* the states table of setPresetState
states ==
    [ground  |-> [theta |-> 0, phi |-> 0],
     excited |-> [theta |-> Pi, phi |-> 0],
     plus    |-> [theta |-> Pi \div 2, phi |-> 0],
     minus   |-> [theta |-> Pi \div 2, phi |-> Pi],
     right   |-> [theta |-> Pi \div 2, phi |-> Pi \div 2],
     left    |-> [theta |-> Pi \div 2, phi |-> (3 * Pi) \div 2]]

\* states[state] is an own entry, or a member inherited from
\* Object.prototype (truthy, its theta and phi undefined), or undefined
setPresetState(state) ==
    /\ CASE state \in DOMAIN states ->
              animateToState(states[state].theta, states[state].phi)
         [] state \in InheritedIds -> animateToState(NaN, NaN)
         [] OTHER -> UNCHANGED <<isAnimating, rafQueue>>
    /\ UNCHANGED <<theta, phi, timers, measurement>>

applyPauliX ==
    animateToState(PauliX(theta, phi)[1], PauliX(theta, phi)[2])

applyPauliY ==
    animateToState(PauliY(theta, phi)[1], PauliY(theta, phi)[2])

applyPauliZ ==
    animateToState(PauliZ(theta, phi)[1], PauliZ(theta, phi)[2])

applyHadamard ==
    animateToState(Hadamard(theta, phi)[1], Hadamard(theta, phi)[2])

\* gates[gate] is an own entry and is called; an inherited member is called
\* too (or is no function and the call throws) and leaves the state alone
applyQuantumGate(gate) ==
    /\ CASE gate = "x" -> applyPauliX
         [] gate = "y" -> applyPauliY
         [] gate = "z" -> applyPauliZ
         [] gate = "h" -> applyHadamard
         [] OTHER -> UNCHANGED <<isAnimating, rafQueue>>
    /\ UNCHANGED <<theta, phi, timers, measurement>>

resetState ==
    /\ animateToState(0, 0)
    /\ UNCHANGED <<theta, phi, timers, measurement>>

----------------------------------------------------------------------------
(* Measurement simulator *)

\* the two outcomes exchanged: Math.random() < prob0 ? 1 : 0
OutcomeExchanged(prob0, r) == IF ~IsNaN(prob0) /\ r < prob0 THEN 1 ELSE 0

\* Math.random() < prob0 ? 0 : 1, for the sample r
Outcome(prob0, r) == IF ~IsNaN(prob0) /\ r < prob0 THEN 0 ELSE 1

\* performMeasurement up to its setTimeout
performMeasurement ==
    /\ Len(timers) < MaxPending
    /\ timers' = Append(timers, measureDelay)
    /\ UNCHANGED <<theta, phi, isAnimating, rafQueue, measurement>>

\* measureCallback collapsing to the pole opposite to the outcome
measureCallbackSwapped(r) ==
    /\ timers # <<>>
    /\ Head(timers) = 0
    /\ LET prob0 == Prob0(theta)
           m == Outcome(prob0, r)
       IN  /\ IF m = 0 THEN animateToState(Pi, 0) ELSE animateToState(0, 0)
           /\ measurement' = m
    /\ timers' = Tail(timers)
    /\ UNCHANGED <<theta, phi>>

\* the callback of the timer that is due, Math.random() returning r
measureCallback(r) ==
    /\ timers # <<>>
    /\ Head(timers) = 0
    /\ LET prob0 == Prob0(theta)
           m == Outcome(prob0, r)
       IN  /\ IF m = 0 THEN animateToState(0, 0) ELSE animateToState(Pi, 0)
           /\ measurement' = m
    /\ timers' = Tail(timers)
    /\ UNCHANGED <<theta, phi>>

----------------------------------------------------------------------------
(* Specifications *)

Init ==
    /\ theta = 0
    /\ phi = 0
    /\ isAnimating = FALSE
    /\ rafQueue = <<>>
    /\ timers = <<>>
    /\ measurement = -1

Tick == \E k \in 1..MaxStep : AdvanceClock(500 * k)

\* what every specification does: reset, measurement, frames, the clock
Common ==
    \/ resetState
    \/ performMeasurement
    \/ \E r \in Samples : measureCallback(r)
    \/ animate
    \/ Tick

\* the page as built: slider values inside the state's range, the buttons' ids
Next ==
    \/ \E v \in ThetaDegrees : thetaSliderInput(v)
    \/ \E v \in PhiDegrees : phiSliderInput(v)
    \/ \E id \in GateIds : applyQuantumGate(id)
    \/ \E id \in PresetIds : setPresetState(id)
    \/ Common

Spec == Init /\ [][Next]_vars

\* the same with the phi slider reaching 360
NextFull ==
    \/ \E v \in ThetaDegrees : thetaSliderInput(v)
    \/ \E v \in FullPhiDegrees : phiSliderInput(v)
    \/ \E id \in GateIds : applyQuantumGate(id)
    \/ \E id \in PresetIds : setPresetState(id)
    \/ Common

SpecFull == Init /\ [][NextFull]_vars

\* the handlers called with any value and any identifier
NextAny ==
    \/ \E v \in AnyThetaDegrees : thetaSliderInput(v)
    \/ \E v \in AnyPhiDegrees : phiSliderInput(v)
    \/ \E id \in AnyIds : applyQuantumGate(id)
    \/ \E id \in AnyIds : setPresetState(id)
    \/ Common

SpecAny == Init /\ [][NextAny]_vars

\* the page as built, on a machine whose clock may be set back
NextClock ==
    \/ Next
    \/ \E k \in 1..(MaxStep + MaxBack) : ClockSetBack(500 * k)

SpecClock == Init /\ [][NextClock]_vars

\* the page as built, the Measure button pressed only on the ground state:
\* every measure request finds theta = 0, where prob0 is 1
measureAtGround == theta = 0 /\ ~isAnimating /\ performMeasurement

NextGround ==
    \/ \E v \in ThetaDegrees : thetaSliderInput(v)
    \/ \E v \in PhiDegrees : phiSliderInput(v)
    \/ \E id \in GateIds : applyQuantumGate(id)
    \/ \E id \in PresetIds : setPresetState(id)
    \/ resetState
    \/ measureAtGround
    \/ \E r \in Samples : measureCallback(r)
    \/ animate
    \/ Tick

SpecGround == Init /\ [][NextGround]_vars

\* time keeps passing and a timer that is due fires
FairGround ==
    /\ SpecGround
    /\ WF_vars(Tick)
    /\ WF_vars(\E r \in Samples : measureCallback(r))

\* frames keep coming and time keeps passing
FairSpec == Spec /\ WF_vars(animate) /\ WF_vars(Tick)

----------------------------------------------------------------------------
(* Properties *)

\* what a closure captured when its transition was accepted
Captured(a) == <<a.startTheta, a.startPhi, a.targetTheta, a.targetPhi>>

Target(a) == <<a.targetTheta, a.targetPhi>>

Start(a) == <<a.startTheta, a.startPhi>>

\* the step runs a measurement callback
CallbackStep == Len(timers') < Len(timers)

\* the step is the last frame of a transition
CompletingStep == isAnimating /\ ~isAnimating'

\* the pole of outcome k
Pole(k) == IF k = 0 THEN <<0, 0>> ELSE <<Pi, 0>>

\* C1: at most one transition is in flight, and it is in flight exactly while
\* the Animator is Animating; while Animating no step (a gate, a preset, a
\* reset, a measurement collapse, a slider input, the clock) changes the
\* captured start and target angles or adds a second interpolation, and when
\* the transition completes nothing is left to run: a dropped request is
\* not queued.
C1_AtMostOneTransition ==
    /\ [](Len(rafQueue) <= 1 /\ (isAnimating <=> rafQueue # <<>>))
    /\ [][isAnimating =>
            IF isAnimating'
            THEN /\ Len(rafQueue') = 1
                 /\ Captured(Head(rafQueue')) = Captured(Head(rafQueue))
            ELSE rafQueue' = <<>>]_vars
    /\ [][isAnimating /\ CallbackStep => UNCHANGED <<isAnimating, rafQueue>>]_vars

\* C1 witness: a measurement callback has run (no timer is left) while a
\* transition to the right preset, accepted from ground, is half-way: its
\* collapse was dropped.
C1_Witness ==
    /\ isAnimating
    /\ measurement = 1
    /\ timers = <<>>
    /\ Len(rafQueue) = 1
    /\ Head(rafQueue) = [startTheta |-> 0, startPhi |-> 0,
                         targetTheta |-> Pi \div 2, targetPhi |-> Pi \div 2,
                         elapsed |-> 500]

\* C2: with frames coming and time passing, an accepted transition reaches
\* Idle; the frame that completes it writes exactly the accepted target into
\* theta and phi, whatever a slider wrote before it; and no step before that
\* frame changes the target.
C2_RunsToCompletion ==
    /\ isAnimating ~> ~isAnimating
    /\ [][CompletingStep => <<theta', phi'>> = Target(Head(rafQueue))]_vars
    /\ [][isAnimating /\ isAnimating' =>
            Target(Head(rafQueue')) = Target(Head(rafQueue))]_vars

\* C2 witness: during a transition to excited a slider has written a theta
\* that is no frame of it (the frames of 0 -> 16 are 0, 14, 16), and the
\* clock has reached the duration: the next frame completes the transition.
C2_Witness ==
    /\ isAnimating
    /\ Len(rafQueue) = 1
    /\ Head(rafQueue).startTheta = 0
    /\ Target(Head(rafQueue)) = <<Pi, 0>>
    /\ Head(rafQueue).elapsed = duration
    /\ theta = Pi \div 2

\* C3 as claimed: every measurement callback, reporting k, leaves a
\* transition to the pole of k in flight, whatever the Animator's state was.
C3_CollapseAlways ==
    [][CallbackStep =>
         /\ rafQueue' # <<>>
         /\ Target(Head(rafQueue')) = Pole(measurement')]_vars

\* C3 amended: a measurement callback that runs while the Animator is Idle,
\* reporting k, starts a transition from the current angles to the pole of
\* k, and the frame that completes a transition writes its target; a callback
\* that runs while the Animator is Animating reports k and leaves the
\* transition in flight as it is (the collapse is dropped).
C3_CollapseFromIdle ==
    /\ [][CallbackStep /\ ~isAnimating =>
            /\ isAnimating'
            /\ rafQueue' = <<[startTheta |-> theta, startPhi |-> phi,
                              targetTheta |-> Pole(measurement')[1],
                              targetPhi |-> Pole(measurement')[2],
                              elapsed |-> 0]>>]_vars
    /\ [][CallbackStep /\ isAnimating =>
            UNCHANGED <<theta, phi, isAnimating, rafQueue>>]_vars
    /\ [][CallbackStep => measurement' \in {0, 1}]_vars
    /\ [][CompletingStep => <<theta', phi'>> = Target(Head(rafQueue))]_vars

\* C3 witness: outcome 1 was reported on the plus state and its collapse to
\* (pi, 0) has just been accepted, a second measurement still waiting.
C3_Witness ==
    /\ measurement = 1
    /\ Len(timers) = 1
    /\ rafQueue = <<[startTheta |-> Pi \div 2, startPhi |-> 0,
                     targetTheta |-> Pi, targetPhi |-> 0, elapsed |-> 0]>>

\* the direction of an angle pair
DirectionOf(s) == Direction(s[1], s[2])

\* the half turns about the X, Y and Z axes and about the axis of Hadamard
RotX(d) == <<d[1], -d[2], -d[3]>>

RotY(d) == <<-d[1], d[2], -d[3]>>

RotZ(d) == <<-d[1], -d[2], d[3]>>

RotH(d) == <<d[3], -d[2], d[1]>>

\* the step accepts, from Idle, the transition of gate g
GateAccepted(g) == ~isAnimating /\ applyQuantumGate(g) /\ isAnimating'

\* C4 as claimed: from Idle, the X gate targets the current direction turned
\* by pi about the X axis, (x, y, z) -> (x, -y, -z).
C4_PauliXIsHalfTurnAboutX ==
    [][GateAccepted("x") =>
         DirectionOf(Target(Head(rafQueue'))) = RotX(Direction(theta, phi))]_vars

\* C5: from Idle, the Y, Z and Hadamard gates target the current direction
\* turned by pi about the gate's axis: (-x, y, -z), (-x, -y, z) and
\* (z, -y, x); from theta = 0 Hadamard targets (pi/2, 0) and from theta = pi
\* it targets (pi/2, pi).
C5_GatesAreHalfTurns ==
    /\ [][GateAccepted("y") =>
            DirectionOf(Target(Head(rafQueue'))) = RotY(Direction(theta, phi))]_vars
    /\ [][GateAccepted("z") =>
            DirectionOf(Target(Head(rafQueue'))) = RotZ(Direction(theta, phi))]_vars
    /\ [][GateAccepted("h") =>
            /\ DirectionOf(Target(Head(rafQueue'))) = RotH(Direction(theta, phi))
            /\ theta = 0 => Target(Head(rafQueue')) = <<Pi \div 2, 0>>
            /\ theta = Pi => Target(Head(rafQueue')) = <<Pi \div 2, Pi>>]_vars

\* C5 witness: the transition of the Y gate from the plus state, to the
\* minus state, has just been accepted.
C5_Witness ==
    rafQueue = <<[startTheta |-> Pi \div 2, startPhi |-> 0,
                  targetTheta |-> Pi \div 2, targetPhi |-> Pi, elapsed |-> 0]>>
    /\ theta = Pi \div 2 /\ phi = 0
    /\ Target(Head(rafQueue)) = PauliY(theta, phi)

\* theta clamped into [0, pi], phi reduced into [0, 2 pi)
Clamp(t) == Max(0, Min(t, Pi))

Normalize(p) == p % (2 * Pi)

\* C6 as claimed: a slider input stores theta clamped into [0, pi] and phi
\* reduced modulo 2 pi into [0, 2 pi), whatever value it carries.
C6_SliderInputIsNormalized ==
    [][/\ \A v \in AnyThetaDegrees :
            thetaSliderInput(v) => theta' = Clamp(DegreesToRadians(v))
       /\ \A v \in AnyPhiDegrees :
            phiSliderInput(v) => phi' = Normalize(DegreesToRadians(v))]_vars

\* the step completes a transition that the Hadamard gate issues from the
\* transition's start
HadamardCompletes ==
    /\ CompletingStep
    /\ Target(Head(rafQueue)) = Hadamard(Head(rafQueue).startTheta,
                                         Head(rafQueue).startPhi)

\* C7 as claimed: when a Hadamard transition completes, a second Hadamard
\* gate targets the angle pair the first one started from.
C7_HadamardTwiceRestoresAngles ==
    [][HadamardCompletes =>
         Hadamard(theta', phi') = Start(Head(rafQueue))]_vars

\* C7 amended: when a Hadamard transition completes, a second Hadamard gate
\* targets the direction the first one started from; it targets the angle
\* pair itself if the start's theta is neither 0 nor pi; from theta = 0 it
\* targets (0, 0) whatever phi was (ground -> plus -> ground), and from
\* theta = pi it targets theta = pi.
C7_HadamardTwiceRestoresDirection ==
    [][HadamardCompletes =>
         LET s == Start(Head(rafQueue))
             back == Hadamard(theta', phi')
         IN  /\ DirectionOf(back) = DirectionOf(s)
             /\ s[1] \notin {0, Pi} => back = s
             /\ s[1] = 0 => back = <<0, 0>>
             /\ s[1] = Pi => back[1] = Pi]_vars

\* C7 witness: from theta = 0 with phi = pi/2 the first Hadamard has run
\* to completion at plus, and the second, targeting (0, 0), is in flight.
C7_Witness ==
    /\ rafQueue = <<[startTheta |-> Pi \div 2, startPhi |-> 0,
                     targetTheta |-> 0, targetPhi |-> 0, elapsed |-> 500]>>
    /\ Target(Head(rafQueue)) = Hadamard(Pi \div 2, 0)
    /\ Hadamard(0, Pi \div 2) = <<Pi \div 2, 0>>

\* C8: when an X transition that started at theta in [0, pi] and phi in
\* [0, 2 pi] completes, a second X gate targets the start's theta and the
\* start's phi modulo 2 pi.
C8_PauliXTwice ==
    [][/\ CompletingStep
       /\ Head(rafQueue).startTheta \in 0..Pi
       /\ Head(rafQueue).startPhi \in 0..(2 * Pi)
       /\ Target(Head(rafQueue)) = PauliX(Head(rafQueue).startTheta,
                                          Head(rafQueue).startPhi)
       => PauliX(theta', phi') = <<Head(rafQueue).startTheta,
                                   Head(rafQueue).startPhi % (2 * Pi)>>]_vars

\* C8 witness: the X transition from (pi/2, 2 pi) has completed at
\* (pi/2, pi) and the second X transition, back to (pi/2, 0), is in flight.
C8_Witness ==
    /\ PauliX(Pi \div 2, 2 * Pi) = <<Pi \div 2, Pi>>
    /\ rafQueue = <<[startTheta |-> Pi \div 2, startPhi |-> Pi,
                     targetTheta |-> Pi \div 2, targetPhi |-> 0,
                     elapsed |-> 500]>>

\* C9 as claimed: a measurement callback that finds theta = 0 reports 0 and
\* one that finds theta = pi reports 1, whatever Math.random() returns.
C9_PolesAreDeterministic ==
    [][\A r \in Samples :
         measureCallback(r) =>
            /\ theta = 0 => measurement' = 0
            /\ theta = Pi => measurement' = 1]_vars

\* C10 as claimed: setPresetState with an identifier outside the table and
\* applyQuantumGate with an identifier other than x, y, z, h change nothing.
C10_UnknownIdIsNoOp ==
    [][/\ \A id \in AnyIds \ PresetIds : setPresetState(id) => UNCHANGED vars
       /\ \A id \in AnyIds \ GateIds : applyQuantumGate(id) => UNCHANGED vars]_vars

\* the text the page shows for the angles of the state
Shown == updateStateDisplay(theta, phi)

\* real and imaginary parts a coefficient may have
Parts == {0, 5000, -5000, 7071, -7071, 10000, -10000}

\* C11 as claimed: at (0, 0) the state shows 1.000 and 0.000; at
\* (pi/2, pi/2) the coefficient beta of |1> shows as the bare string i.
C11_RightRendersBareI ==
    /\ (theta = 0 /\ phi = 0) =>
          Shown.alphaStr = "1.000" /\ Shown.betaStr = "0.000"
    /\ (theta = Pi \div 2 /\ phi = Pi \div 2) => Shown.betaStr = "i"

\* C11 amended: at (0, 0) the state shows 1.000 and 0.000; at (pi/2, pi/2)
\* beta is i / sqrt 2 and shows as 0.707i; a coefficient whose imaginary
\* part is 1 or -1 shows that part as i or -i, never with digits: beta
\* shows as i at (pi, pi/2) and as -i at (pi, 3 pi/2), and after a real part
\* the text ends in "+ i" or "- i".
C11_FormattedState ==
    /\ OnGrid(theta, phi) =>
          /\ (theta = 0 /\ phi = 0) =>
                Shown.alphaStr = "1.000" /\ Shown.betaStr = "0.000"
          /\ (theta = Pi \div 2 /\ phi = Pi \div 2) => Shown.betaStr = "0.707i"
          /\ Beta(theta, phi) = Complex(0, 10000) => Shown.betaStr = "i"
          /\ Beta(theta, phi) = Complex(0, -10000) => Shown.betaStr = "-i"
    /\ \A re \in Parts \ {0} :
          /\ formatComplex(re, 10000) = toFixed(re) \o " + i"
          /\ formatComplex(re, -10000) = toFixed(re) \o " - i"
    /\ formatComplex(0, 10000) = "i"
    /\ formatComplex(0, -10000) = "-i"

\* C11 witness: the right preset's transition has completed and the state
\* shows 0.707|0> + (0.707i)|1>.
C11_Witness ==
    /\ ~isAnimating
    /\ theta = Pi \div 2
    /\ phi = Pi \div 2
    /\ Shown = [alphaStr |-> "0.707", betaStr |-> "0.707i"]

\* theta is in [0, pi] and phi in [0, 2 pi)
InRange == theta \in 0..Pi /\ phi \in 0..(2 * Pi - 1)

\* C12 as claimed: from (0, 0), with slider values inside the range, every
\* state reached by gates, presets, resets, measurement collapses and frames
\* has theta in [0, pi] and phi in [0, 2 pi), the frames of a transition
\* included.
C12_AnglesStayInRange == InRange

\* clamp((now - startTime) / durationMs, 0, 1) as a fraction
ClampedProgress(elapsed) == IF elapsed <= 0 THEN <<0, 1>> ELSE Progress(elapsed)

\* x lies between a and b inclusive
Between(a, x, b) == Min(a, b) <= x /\ x <= Max(a, b)

\* C13 as claimed: whatever the clock reads, a frame computes a progress in
\* [0, 1], the progress clamped, and writes start + (target - start) * eased
\* of it into theta and phi, each between its start and its target.
C13_FramesAreClampedAndBetween ==
    [][animate =>
         LET a == Head(rafQueue)
             progress == Progress(a.elapsed)
             eased == Eased(ClampedProgress(a.elapsed))
         IN  /\ 0 <= progress[1] /\ progress[1] <= progress[2]
             /\ progress = ClampedProgress(a.elapsed)
             /\ theta' = Interpolate(a.startTheta, a.targetTheta, eased)
             /\ phi' = Interpolate(a.startPhi, a.targetPhi, eased)
             /\ Between(a.startTheta, theta', a.targetTheta)
             /\ Between(a.startPhi, phi', a.targetPhi)]_vars

\* the step is a measure request
RequestStep == Len(timers') > Len(timers)

====
